---- MODULE Spec2Model ----
(***************************************************************************)
(* A model of honeybee's sun-matrix provider (radiance/sky/sunmatrix.py),   *)
(* of its rpict parameter set (radiance/parameters/imagebased.py) and of   *)
(* its two grid-based recipes (radiance/recipe/gridbased.py and            *)
(* radiance/recipe/dc/gridbased.py).                                       *)
(*                                                                         *)
(* Text is modelled with TLC strings: str(h) is ToString(h), '+' and       *)
(* str.join are \o.  A line of process output, which the code indexes and  *)
(* splits, is a sequence of pieces: the one-character strings " " and "#", *)
(* and runs of other characters.                                           *)
(* Python sequences are 0-based, TLA+ sequences 1-based: the Python index  *)
(* i is the TLA+ index i + 1 throughout.                                   *)
(***************************************************************************)
EXTENDS Integers, Sequences, FiniteSets, TLC

VARIABLES
    asked,      \* the hoys argument the sky object in use was made with
    hoys,       \* SunMatrix.hoys of the sky object in use
    hrsFile,    \* <workingDir>/<name>.hrs, the manifest
    annFile,    \* <workingDir>/<name>.ann, one line per retained sun
    sunFile,    \* <workingDir>/<name>.sun, the list of sun identifiers
    mtxFile,    \* <workingDir>/<name>.mtx, the sun matrix
    last,       \* the last call on the sky / the folder and what it did
    gdOutput,   \* the lines gendaylit returned for an hour, and their tokens
    runs,       \* the calls of execute in progress on one folder, per caller
    folderLog,  \* whether calls on the folder ever overlapped or aborted
    params,     \* an ImageBasedParameters object
    plast,      \* the last call on the parameters object and what it did
    recipe,     \* a GridBased or DaylightCoeffGridBased recipe object
    disk,       \* the files under the target folder of the recipes
    rlast       \* the last call on the recipe and what it did

sunVars == <<asked, hoys, hrsFile, annFile, sunFile, mtxFile, last, gdOutput,
            runs, folderLog>>
paramVars == <<params, plast>>
recVars == <<recipe, disk, rlast>>
vars == <<asked, hoys, hrsFile, annFile, sunFile, mtxFile, last, gdOutput,
          runs, folderLog, params, plast, recipe, disk, rlast>>

(***************************************************************************)
(* Bounds and program constants.                                           *)
(***************************************************************************)
\* how many of HoyChoices the callers may request
NumHoyChoices == 6

\* range(8760): the hours of a year
HoursInYear == 8760

\* how far outside 0..2 the qualities callers assign may lie
MaxOutside == 1

\* how many lines gendaylit returns before the lines of the sky
MaxLines == 3

\* how many of the grid layouts of GridChoices recipes are made with
NumGridChoices == 2

\* how many daylight matrices a folder may hold when a recipe is made
MaxMatrices == 2

(***************************************************************************)
(* Text helpers.                                                           *)
(***************************************************************************)
range(n) == [i \in 1..n |-> i - 1]

\* sep.join(str(x) for x in s[lo..hi]), by halving so that a year of hours
\* does not nest 8760 deep
RECURSIVE JoinStr(_, _, _, _)
JoinStr(s, sep, lo, hi) ==
    IF lo > hi THEN ""
    ELSE IF lo = hi THEN ToString(s[lo])
    ELSE LET mid == (lo + hi) \div 2
         IN  JoinStr(s, sep, lo, mid) \o sep \o JoinStr(s, sep, mid + 1, hi)

\* ','.join(str(h) for h in self.hoys) + '\n'
HoursLine(hs) == JoinStr(hs, ",", 1, Len(hs)) \o "\n"

\* adjacent pieces of a line glued back into one token
RECURSIVE Glue(_)
Glue(cs) == IF cs = <<>> THEN "" ELSE Head(cs) \o Glue(Tail(cs))

\* str.split(): the maximal runs of non-blank pieces of a line
RECURSIVE SplitFrom(_, _, _)
SplitFrom(line, i, cur) ==
    IF i > Len(line)
    THEN IF cur = <<>> THEN <<>> ELSE <<Glue(cur)>>
    ELSE IF line[i] = " "
         THEN (IF cur = <<>> THEN <<>> ELSE <<Glue(cur)>>)
              \o SplitFrom(line, i + 1, <<>>)
         ELSE SplitFrom(line, i + 1, Append(cur, line[i]))

Split(line) == SplitFrom(line, 1, <<>>)

\* a line of output made of words separated by single blanks
RECURSIVE LineOf(_)
LineOf(ws) ==
    IF ws = <<>> THEN <<>>
    ELSE IF Len(ws) = 1 THEN <<ws[1]>>
    ELSE <<ws[1], " ">> \o LineOf(Tail(ws))

(***************************************************************************)
(* The weather series (ladybug Wea) and the per-hour sky generator         *)
(* (gendaylit piped through xform): external collaborators, fixed here as  *)
(* tables that cover a dark hour, a sunlit hour, an hour whose sun has no  *)
(* radiance and an hour for which nothing but comments comes back.         *)
(***************************************************************************)
\* wea.directNormalRadiation[hoy]
directNormalRadiation(h) ==
    CASE h = 1 -> 500
      [] h = 3 -> 300
      [] OTHER -> 0

\* wea.diffuseHorizontalRadiation[hoy]
diffuseHorizontalRadiation(h) ==
    CASE h = 1 -> 100
      [] h = 2 -> 20
      [] h = 3 -> 50
      [] h = 4 -> 5
      [] OTHER -> 0

\* wea.location.latitude, wea.location.longitude
weaLatitude == 38
weaLongitude == 122

\* DateTime.fromHoy(idx): the time stamp of an hour of the year
DateTimeFromHoy(idx) == [intHOY |-> idx]

\* the six lines the sky function and the trailing newline add to every output
SkyTail ==
    << LineOf(<<"skyfunc", "glow", "skyglow">>), <<"0">>, <<"0">>,
       LineOf(<<"4", "1", "1", "1", "0">>),
       LineOf(<<"skyglow", "source", "sky">>), <<>> >>

\* the sun definition gendaylit prints when the sun has radiance rad
SunLines(rad) ==
    << LineOf(<<"#", "gendaylit">>),
       LineOf(<<"void", "light", "solar">>), <<"0">>, <<"0">>,
       LineOf(<<"3", rad, rad, rad>>),
       LineOf(<<"solar", "source", "sun">>), <<"0">>, <<"0">>,
       LineOf(<<"4", "0.1", "0.2", "0.9", "0.533">>) >>

\* gd.communicate()[0].split('\n') for the hour of timeStamp
GendaylitData(timeStamp) ==
    CASE timeStamp.intHOY = 1 -> SunLines("11") \o SkyTail
      [] timeStamp.intHOY = 2 -> SunLines("0") \o SkyTail
      [] timeStamp.intHOY = 3 -> SunLines("33") \o SkyTail
      [] OTHER -> <<LineOf(<<"#", "gendaylit">>)>> \o SkyTail

\* float(token); -1 stands for the ValueError of a token that is no number
NotANumber == 0 - 1
float(tok) ==
    CASE tok = "0" -> 0
      [] tok = "11" -> 11
      [] tok = "33" -> 33
      [] OTHER -> NotANumber

(***************************************************************************)
(* SunMatrix                                                               *)
(***************************************************************************)
\* the hoys argument of __init__: None (the default) or a list; the list of
\* None is empty, as None and the empty list are both false to 'or'
NoHoysGiven == [given |-> FALSE, hoys |-> <<>>]
HoysGiven(hs) == [given |-> TRUE, hoys |-> hs]

\* __init__: self.hoys = hoys or range(8760)
SunMatrixHoys(given) == IF given = <<>> THEN range(HoursInYear) ELSE given

\* data[:-6]
DropTail(data) == SubSeq(data, 1, Len(data) - 6)

\* lines 174-180: the tokens of the lines that do not begin with '#';
\* lines[0] of an empty line raises IndexError
RECURSIVE CleanFrom(_, _, _)
CleanFrom(data, i, acc) ==
    IF i > Len(data) THEN [ok |-> TRUE, tokens |-> acc]
    ELSE IF data[i] = <<>> THEN [ok |-> FALSE, tokens |-> acc]
    ELSE IF data[i][1] = "#" THEN CleanFrom(data, i + 1, acc)
    ELSE CleanFrom(data, i + 1, acc \o Split(data[i]))

CleanOutput(data) == CleanFrom(DropTail(data), 1, <<>>)

\* line 171, data = gd.communicate()[0].split('\n'): the lines of one run,
\* not yet cleaned
Communicate(data) ==
    [data |-> data, cleaned |-> FALSE, ok |-> TRUE, sunCurrentValue |-> <<>>]

NoOutput == Communicate(<<>>)

\* sunCurrentValue[6:9]
RadianceTriplet(tokens) ==
    SubSeq(tokens, 7, IF Len(tokens) < 9 THEN Len(tokens) ELSE 9)

Max(S) == CHOOSE m \in S : \A x \in S : x <= m

\* lines 157-158: the series of wea are lists of one value per hour of the
\* year; an index below 0 counts from the end of the list, one outside the
\* list raises IndexError
InWea(h) == 0 - HoursInYear <= h /\ h < HoursInYear
weaIndex(h) == IF h < 0 THEN h + HoursInYear ELSE h

\* line 160: dnr + dhr == 0, no need to run gendaylit
IsDark(h) ==
    LET timeStamp == DateTimeFromHoy(h)
    IN  directNormalRadiation(weaIndex(timeStamp.intHOY))
          + diffuseHorizontalRadiation(weaIndex(timeStamp.intHOY)) = 0

\* mutant of SunCaptured: any captured output counts as a sun
SunCapturedAnyOutput(tokens) == IF tokens = <<>> THEN "no" ELSE "yes"

\* line 183: sunCurrentValue and max(map(float, sunCurrentValue[6:9]));
\* "error" is max() of an empty slice or float() of a token that is no number
SunCaptured(tokens) ==
    IF tokens = <<>> THEN "no"
    ELSE LET trip == RadianceTriplet(tokens)
             vals == {float(trip[i]) : i \in 1..Len(trip)}
         IN  IF trip = <<>> \/ NotANumber \in vals THEN "error"
             ELSE IF Max(vals) # 0 THEN "yes" ELSE "no"

\* mutant of NameSun: the suns are counted from 0
NameSunFromZero(tokens, k) ==
    [tokens EXCEPT ![3] = "solar" \o ToString(k - 1),
                   ![10] = "solar" \o ToString(k - 1)]

\* lines 184-185: name the sun after its place among the retained ones
NameSun(tokens, k) ==
    [tokens EXCEPT ![3] = "solar" \o ToString(k), ![10] = "solar" \o ToString(k)]

\* lines 155-187, over the hours that are not passed over: gendaylitRuns is
\* whether Popen can start the process (it raises OSError otherwise); ran
\* collects the hours gendaylit was started for; inWea is FALSE when the loop
\* ended with the IndexError of an hour that wea has no value for
RECURSIVE SunLoop(_, _, _, _, _, _)
SunLoop(lit, i, gendaylitRuns, sunValues, sunUpHours, ran) ==
    IF i > Len(lit)
    THEN [ok |-> TRUE, sunValues |-> sunValues, sunUpHours |-> sunUpHours,
          ran |-> ran, inWea |-> TRUE]
    ELSE IF ~InWea(lit[i])
    THEN [ok |-> FALSE, sunValues |-> sunValues, sunUpHours |-> sunUpHours,
          ran |-> ran, inWea |-> FALSE]
    ELSE IF ~gendaylitRuns
    THEN [ok |-> FALSE, sunValues |-> sunValues, sunUpHours |-> sunUpHours,
          ran |-> ran, inWea |-> TRUE]
    ELSE
      LET timeStamp == DateTimeFromHoy(lit[i])
          parsed == CleanOutput(GendaylitData(timeStamp))
          sunCurrentValue == parsed.tokens
          captured == SunCaptured(sunCurrentValue)
          ranNow == Append(ran, timeStamp.intHOY)
          failed == [ok |-> FALSE, sunValues |-> sunValues,
                     sunUpHours |-> sunUpHours, ran |-> ranNow, inWea |-> TRUE]
      IN  IF ~parsed.ok \/ captured = "error" THEN failed
          ELSE IF captured = "no"
          THEN SunLoop(lit, i + 1, gendaylitRuns, sunValues, sunUpHours, ranNow)
          ELSE IF Len(sunCurrentValue) < 10 THEN failed
          ELSE SunLoop(lit, i + 1, gendaylitRuns,
                       Append(sunValues,
                              NameSun(sunCurrentValue, Len(sunValues) + 1)),
                       Append(sunUpHours, timeStamp.intHOY), ranNow)

\* lines 149-187: the dark hours are passed over without running gendaylit
CollectSuns(hs, gendaylitRuns) ==
    SunLoop(SelectSeq(hs, LAMBDA h : ~InWea(h) \/ ~IsDark(h)), 1, gendaylitRuns,
            <<>>, <<>>, <<>>)

\* mutant of hoursMatch: any manifest matches
hoursMatchAnyManifest(hoursFile, hs) == hoursFile.exists

\* lines 101-109
hoursMatch(hoursFile, hs) ==
    IF ~hoursFile.exists THEN FALSE
    ELSE hoursFile.text = HoursLine(hs)

\* mutant of FoundSunMatrix: the manifest is not looked at
FoundSunMatrixWithoutManifest(reuse, hs, hrf, fp, lfp, mfp) ==
    /\ reuse
    /\ \A f \in {fp.exists, lfp.exists, mfp.exists} : f

\* lines 126-133: the matrix on disk is returned as it is
FoundSunMatrix(reuse, hs, hrf, fp, lfp, mfp) ==
    /\ reuse
    /\ hoursMatch(hrf, hs)
    /\ \A f \in {fp.exists, lfp.exists, mfp.exists} : f

\* lines 135-136
WriteHours(hs) == [exists |-> TRUE, text |-> HoursLine(hs), madeFor |-> hs]

\* lines 193-195: one line of tokens per sun
WriteAnalemma(hs, sunValues) ==
    [exists |-> TRUE, lines |-> sunValues, madeFor |-> hs]

\* lines 199-203
WriteSunList(hs, numOfSuns) ==
    [exists |-> TRUE,
     lines |-> [idx \in 1..numOfSuns |-> "solar" \o ToString(idx)],
     madeFor |-> hs]

\* mutant of FileHeader: as many columns as suns
FileHeaderSunColumns(hs, numOfSuns) ==
    << "#?RADIANCE",
       "Sun matrix created by Honeybee",
       "LATLONG= " \o ToString(weaLatitude) \o " " \o ToString(weaLongitude),
       "NROWS=" \o ToString(numOfSuns),
       "NCOLS=" \o ToString(numOfSuns),
       "NCOMP=3",
       "FORMAT=ascii" >>

\* lines 206-212
FileHeader(hs, numOfSuns) ==
    LET lat == weaLatitude
        lon == 0 - weaLongitude
    IN  << "#?RADIANCE",
           "Sun matrix created by Honeybee",
           "LATLONG= " \o ToString(lat) \o " " \o ToString(0 - lon),
           "NROWS=" \o ToString(numOfSuns),
           "NCOLS=" \o ToString(Len(hs)),
           "NCOMP=3",
           "FORMAT=ascii" >>

\* ['0 0 0'] * len(self.hoys)
ZeroRow(hs) == [i \in 1..Len(hs) |-> "0 0 0"]

\* line 220: the column the radiance of a sun is written to (0-based)
SunColumn(hs, sunUpHours, idx) == sunUpHours[idx]

\* lines 218-221: the rows written before the loop ends or raises IndexError
RECURSIVE WriteRows(_, _, _, _, _)
WriteRows(hs, sunValues, sunUpHours, idx, rows) ==
    IF idx > Len(sunValues) THEN [ok |-> TRUE, rows |-> rows]
    ELSE
      LET col == SunColumn(hs, sunUpHours, idx)
          sunValue == sunValues[idx]
          rad == sunValue[7] \o " " \o sunValue[8] \o " " \o sunValue[9]
      IN  IF col + 1 > Len(hs) THEN [ok |-> FALSE, rows |-> rows]
          ELSE WriteRows(hs, sunValues, sunUpHours, idx + 1,
                         Append(rows, [ZeroRow(hs) EXCEPT ![col + 1] = rad]))

\* lines 216-226
WriteMatrix(hs, sunValues, sunUpHours) ==
    LET written == WriteRows(hs, sunValues, sunUpHours, 1, <<>>)
    IN  [exists |-> TRUE,
         header |-> FileHeader(hs, Len(sunUpHours)),
         rows |-> written.rows,
         ground |-> IF written.ok THEN ZeroRow(hs) ELSE <<>>,
         complete |-> written.ok,
         madeFor |-> hs]

(***************************************************************************)
(* The hour sequences callers ask for, the first NumHoyChoices of:         *)
(* contiguous from 0, a permutation of it, sparse ones and one with no     *)
(* sun.                                                                    *)
(***************************************************************************)
HoyChoices ==
    << <<0, 1>>, <<1, 0>>, <<2, 3, 4>>, <<0, 2>>, <<0, 1, 2, 3>>, <<1, 2, 3>>,
       <<3, 0, 1>>, <<1>> >>

HoyInputs ==
    {HoyChoices[i] : i \in 1..(IF NumHoyChoices < Len(HoyChoices)
                               THEN NumHoyChoices ELSE Len(HoyChoices))}

\* the hoys arguments skies are made with when the hours of the year are
\* looked at: none at all, an empty list, and lists that reach the first
\* and last hours of the year and the hours next to them
LastHour == HoursInYear - 1
YearInputs ==
    {NoHoysGiven} \cup
    {HoysGiven(hs) : hs \in
        { <<>>, <<0>>, <<1>>, <<3, 1>>, <<1, 1>>, <<0, 1, 2, 3>>, <<2, 3, 4>>,
          <<LastHour>>, <<LastHour, 0>>, <<HoursInYear>>, <<1, HoursInYear>>,
          <<0 - 1>>, <<0 - HoursInYear>>, <<0 - HoursInYear - 1>> }}

NoHours == [exists |-> FALSE, text |-> "", madeFor |-> <<>>]
NoLines == [exists |-> FALSE, lines |-> <<>>, madeFor |-> <<>>]
NoMatrix == [exists |-> FALSE, header |-> <<>>, rows |-> <<>>, ground |-> <<>>,
             complete |-> FALSE, madeFor |-> <<>>]

\* what the folder held when a call began
Before == [hrs |-> hrsFile.exists, hrsFor |-> hrsFile.madeFor,
           ann |-> annFile.exists, sun |-> sunFile.exists,
           mtx |-> mtxFile.exists]

NoCall == [op |-> "new", reuse |-> FALSE, outcome |-> "none",
           before |-> [hrs |-> FALSE, hrsFor |-> <<>>, ann |-> FALSE,
                       sun |-> FALSE, mtx |-> FALSE],
           ran |-> <<>>, sunValues |-> <<>>, sunUpHours |-> <<>>]

\* SunMatrix(wea, north, given), lines 28-33
NewSunMatrix(given) ==
    /\ asked' = given
    /\ hoys' = SunMatrixHoys(given.hoys)
    /\ last' = NoCall
    /\ UNCHANGED <<hrsFile, annFile, sunFile, mtxFile, gdOutput, runs, folderLog,
                   params, plast, recVars>>

\* SunMatrix.execute(workingDir, reuse), lines 111-228
Execute(reuse, gendaylitRuns) ==
    LET call == [NoCall EXCEPT !.op = "execute", !.reuse = reuse,
                               !.before = Before]
    IN
    IF FoundSunMatrix(reuse, hoys, hrsFile, annFile, sunFile, mtxFile)
    THEN /\ last' = [call EXCEPT !.outcome = "cached"]
         /\ UNCHANGED <<asked, hoys, hrsFile, annFile, sunFile, mtxFile,
                        gdOutput, runs, folderLog, params, plast, recVars>>
    ELSE
      LET suns == CollectSuns(hoys, gendaylitRuns)
          mtx == WriteMatrix(hoys, suns.sunValues, suns.sunUpHours)
          ran == [call EXCEPT !.ran = suns.ran, !.sunValues = suns.sunValues,
                              !.sunUpHours = suns.sunUpHours]
      IN  /\ hrsFile' = WriteHours(hoys)
          /\ IF ~suns.ok
             THEN /\ last' = [ran EXCEPT !.outcome =
                                IF suns.inWea THEN "error in gendaylit"
                                ELSE "error in wea"]
                  /\ UNCHANGED <<annFile, sunFile, mtxFile>>
             ELSE /\ annFile' = WriteAnalemma(hoys, suns.sunValues)
                  /\ sunFile' = WriteSunList(hoys, Len(suns.sunUpHours))
                  /\ mtxFile' = mtx
                  /\ last' = [ran EXCEPT !.outcome =
                                IF mtx.complete THEN "generated"
                                ELSE "error in matrix"]
          /\ UNCHANGED <<asked, hoys, gdOutput, runs, folderLog, params, plast,
                         recVars>>

\* the folder is the caller's: a file of it may be removed between calls
RemoveFile(f) ==
    /\ CASE f = "hrs" -> hrsFile.exists
         [] f = "ann" -> annFile.exists
         [] f = "sun" -> sunFile.exists
         [] f = "mtx" -> mtxFile.exists
    /\ hrsFile' = IF f = "hrs" THEN NoHours ELSE hrsFile
    /\ annFile' = IF f = "ann" THEN NoLines ELSE annFile
    /\ sunFile' = IF f = "sun" THEN NoLines ELSE sunFile
    /\ mtxFile' = IF f = "mtx" THEN NoMatrix ELSE mtxFile
    /\ last' = [NoCall EXCEPT !.op = "remove"]
    /\ UNCHANGED <<asked, hoys, gdOutput, runs, folderLog, params, plast,
                         recVars>>

(***************************************************************************)
(* The parser on its own: the lines one run of gendaylit may return before *)
(* the six lines of the sky, up to MaxLines of them, each a comment, a     *)
(* line of words, an indented line, an indented comment, an empty line or  *)
(* a line of blanks.                                                       *)
(***************************************************************************)
LineChoices ==
    { LineOf(<<"#", "gendaylit">>), LineOf(<<"solar", "source", "sun">>),
      <<" ", "4", " ">>, <<" ", "#">>, <<>>, <<" ">> }

RECURSIVE LinesUpTo(_)
LinesUpTo(n) ==
    IF n = 0 THEN {<<>>}
    ELSE LET shorter == LinesUpTo(n - 1)
         IN  shorter \cup {Append(ls, l) : ls \in shorter, l \in LineChoices}

LineInputs == LinesUpTo(MaxLines)

\* line 171 for the next hour: gendaylit returns another output
NextHour(data) ==
    /\ gdOutput.cleaned
    /\ gdOutput' = Communicate(data)
    /\ UNCHANGED <<asked, hoys, hrsFile, annFile, sunFile, mtxFile, last, runs,
                   folderLog, params, plast, recVars>>

\* lines 172-180: clean the output
CleanTheOutput ==
    /\ ~gdOutput.cleaned
    /\ LET parsed == CleanOutput(gdOutput.data)
       IN  gdOutput' = [gdOutput EXCEPT !.cleaned = TRUE, !.ok = parsed.ok,
                                        !.sunCurrentValue = parsed.tokens]
    /\ UNCHANGED <<asked, hoys, hrsFile, annFile, sunFile, mtxFile, last, runs,
                   folderLog, params, plast, recVars>>

(***************************************************************************)
(* execute called by two callers on one folder.  Both skies are made from  *)
(* the same wea and north, so they have the same name and the same four    *)
(* files.  The code takes no lock: a call is a sequence of steps, one for  *)
(* the test of the folder and one for each file it writes, and the steps   *)
(* of two calls may interleave.                                            *)
(***************************************************************************)
Callers == {"first", "second"}

\* the hours the two callers ask for: two sequences whose matrices can be
\* written in full
RaceInputs == {HoyChoices[1], HoyChoices[5]}

\* matrixFor: the hours the matrix the call returned was written for
Idle == [at |-> "idle", hoys |-> <<>>, reuse |-> FALSE, outcome |-> "none",
         matrixFor |-> <<>>]

NoRuns ==
    /\ runs = [c \in Callers |-> Idle]
    /\ folderLog = [overlapped |-> FALSE, aborted |-> FALSE]

\* lines 126-226: the order of the steps of execute when nothing is reused
StepAfter(at) ==
    CASE at = "check" -> "hrs"
      [] at = "hrs" -> "ann"
      [] at = "ann" -> "sun"
      [] at = "sun" -> "mtx"
      [] OTHER -> "idle"

Ends(c, outcome, mfp) ==
    [runs EXCEPT ![c].at = "idle", ![c].outcome = outcome,
                 ![c].matrixFor = mfp.madeFor]
Advances(c) == [runs EXCEPT ![c].at = StepAfter(runs[c].at)]
Aborts == [folderLog EXCEPT !.aborted = TRUE]

raceFixed == <<asked, hoys, last, gdOutput, params, plast, recVars>>

\* a caller calls SunMatrix(wea, north, hs).execute(workingDir, reuse)
BeginExecute(c, hs, reuse) ==
    /\ runs[c].at = "idle"
    /\ runs' = [runs EXCEPT ![c] = [Idle EXCEPT !.at = "check", !.hoys = hs,
                                                 !.reuse = reuse]]
    /\ folderLog' = [folderLog EXCEPT !.overlapped =
                        @ \/ \E d \in Callers \ {c} : runs[d].at # "idle"]
    /\ UNCHANGED <<hrsFile, annFile, sunFile, mtxFile, raceFixed>>

\* lines 126-133
CheckFolder(c) ==
    /\ runs[c].at = "check"
    /\ runs' = IF FoundSunMatrix(runs[c].reuse, runs[c].hoys, hrsFile, annFile,
                                 sunFile, mtxFile)
               THEN Ends(c, "cached", mtxFile)
               ELSE Advances(c)
    /\ UNCHANGED <<hrsFile, annFile, sunFile, mtxFile, folderLog, raceFixed>>

\* lines 135-136
WriteHoursFile(c) ==
    /\ runs[c].at = "hrs"
    /\ hrsFile' = WriteHours(runs[c].hoys)
    /\ runs' = Advances(c)
    /\ UNCHANGED <<annFile, sunFile, mtxFile, folderLog, raceFixed>>

\* lines 138-195: the suns are collected, which an error ends, and the
\* analemma is written
WriteAnalemmaFile(c, gendaylitRuns) ==
    /\ runs[c].at = "ann"
    /\ LET suns == CollectSuns(runs[c].hoys, gendaylitRuns)
       IN  IF suns.ok
           THEN /\ annFile' = WriteAnalemma(runs[c].hoys, suns.sunValues)
                /\ runs' = Advances(c)
                /\ UNCHANGED folderLog
           ELSE /\ runs' = Ends(c, "error in gendaylit", NoMatrix)
                /\ folderLog' = Aborts
                /\ UNCHANGED annFile
    /\ UNCHANGED <<hrsFile, sunFile, mtxFile, raceFixed>>

\* lines 197-203; the call that reached this step has collected its suns
WriteSunListFile(c) ==
    /\ runs[c].at = "sun"
    /\ LET suns == CollectSuns(runs[c].hoys, TRUE)
       IN  sunFile' = WriteSunList(runs[c].hoys, Len(suns.sunUpHours))
    /\ runs' = Advances(c)
    /\ UNCHANGED <<hrsFile, annFile, mtxFile, folderLog, raceFixed>>

\* lines 205-228
WriteMatrixFile(c) ==
    /\ runs[c].at = "mtx"
    /\ LET suns == CollectSuns(runs[c].hoys, TRUE)
           mtx == WriteMatrix(runs[c].hoys, suns.sunValues, suns.sunUpHours)
       IN  /\ mtxFile' = mtx
           /\ runs' = Ends(c, IF mtx.complete THEN "generated"
                              ELSE "error in matrix", mtx)
           /\ folderLog' = IF mtx.complete THEN folderLog ELSE Aborts
    /\ UNCHANGED <<hrsFile, annFile, sunFile, raceFixed>>

(***************************************************************************)
(* Properties of SunMatrix.execute, checked under SunSpec.                 *)
(***************************************************************************)
Range(seq) == {seq[i] : i \in 1..Len(seq)}

ExecuteWrote == last.op = "execute" /\ last.outcome \in {"generated", "error in matrix"}

\* C1: execute returns the files on disk without generating exactly when reuse
\* is asked for, the manifest exists and was written for this very hour
\* sequence (same hours, same order), and the .ann, .sun and .mtx files exist.
C1_ReuseIsExact ==
    last.op = "execute" =>
        ( last.outcome = "cached"
          <=> /\ last.reuse
              /\ last.before.hrs
              /\ last.before.hrsFor = hoys
              /\ last.before.ann
              /\ last.before.sun
              /\ last.before.mtx )

\* a call that found the sun matrix and returned it
C1_Witness == last.op = "execute" /\ last.outcome = "cached" /\ Len(hoys) > 1

\* C2: whenever execute returns the files on disk, each of them was written by
\* a generation that ran to the end for the hour sequence now requested.
C2_NeverServesStale ==
    (last.op = "execute" /\ last.outcome = "cached") =>
        /\ annFile.madeFor = hoys
        /\ sunFile.madeFor = hoys
        /\ mtxFile.madeFor = hoys
        /\ mtxFile.complete

\* ' '.join(sunValue[6:9]) of the k-th retained sun
RadianceOf(k) ==
    last.sunValues[k][7] \o " " \o last.sunValues[k][8] \o " "
        \o last.sunValues[k][9]

\* C3: for any requested hour sequence the matrix is written to the end, and
\* the row of each retained sun has len(hoys) triplets: its radiance in the
\* column of its hour's place in the sequence, 0 0 0 in every other column.
C3_RadianceInRequestedColumn ==
    (last.op = "execute" /\ last.outcome \notin {"cached", "error in gendaylit"}) =>
        /\ last.outcome = "generated"
        /\ Len(mtxFile.rows) = Len(last.sunUpHours)
        /\ \A k \in 1..Len(mtxFile.rows) :
              /\ Len(mtxFile.rows[k]) = Len(hoys)
              /\ \A c \in 1..Len(hoys) :
                    mtxFile.rows[k][c] =
                        IF hoys[c] = last.sunUpHours[k] THEN RadianceOf(k)
                        ELSE "0 0 0"

\* C4: an hour without direct and diffuse irradiance is never given to
\* gendaylit and never retained; every retained sun has tokens and a radiance
\* triplet (tokens 6..8) that is not zero.
C4_DarkHoursSkipped ==
    last.op = "execute" =>
        /\ \A h \in Range(hoys) :
              directNormalRadiation(h) + diffuseHorizontalRadiation(h) = 0
                  => h \notin Range(last.ran) /\ h \notin Range(last.sunUpHours)
        /\ Len(last.sunValues) = Len(last.sunUpHours)
        /\ \A k \in 1..Len(last.sunUpHours) :
              /\ last.sunUpHours[k] \in Range(last.ran)
              /\ Len(last.sunValues[k]) >= 9
              /\ \E j \in 7..9 : float(last.sunValues[k][j]) # 0

\* a run over a dark hour, a sunlit hour and an hour whose sun has no radiance
C4_Witness ==
    /\ last.op = "execute"
    /\ last.outcome = "generated"
    /\ \E h \in Range(hoys) :
          directNormalRadiation(h) + diffuseHorizontalRadiation(h) = 0
    /\ Len(last.sunUpHours) > 0
    /\ Len(last.ran) > Len(last.sunUpHours)

\* the number a header line gives for key, read back from the file
HeaderNumber(header, key) ==
    LET found == {n \in 0..9 : key \o "=" \o ToString(n) \in Range(header)}
    IN  IF Cardinality(found) = 1 THEN CHOOSE n \in found : TRUE ELSE 0 - 1

\* C5: the header written by execute gives NROWS as the number of retained
\* suns, NCOLS as the length of the requested hour sequence and NCOMP as 3,
\* also when no sun is retained.
C5_HeaderCounts ==
    ExecuteWrote =>
        /\ mtxFile.exists
        /\ HeaderNumber(mtxFile.header, "NROWS") = Len(last.sunUpHours)
        /\ HeaderNumber(mtxFile.header, "NCOLS") = Len(hoys)
        /\ HeaderNumber(mtxFile.header, "NCOMP") = 3

\* a matrix written for a request none of whose hours has a sun
C5_Witness ==
    /\ ExecuteWrote
    /\ last.sunUpHours = <<>>
    /\ Len(hoys) > 1
    /\ HeaderNumber(mtxFile.header, "NROWS") = 0

\* C6: the k-th retained hour, in the order of the request, is solar<k> in the
\* .ann file and in the .sun file, k = 1, 2, .. without gaps, and both files
\* have as many entries as there are retained suns.
C6_SunNamesConsecutive ==
    ExecuteWrote =>
        /\ last.sunUpHours =
              SelectSeq(hoys, LAMBDA h : h \in Range(last.sunUpHours))
        /\ Len(annFile.lines) = Len(last.sunUpHours)
        /\ Len(sunFile.lines) = Len(last.sunUpHours)
        /\ \A k \in 1..Len(last.sunUpHours) :
              LET tokens == CleanOutput(GendaylitData(
                                DateTimeFromHoy(last.sunUpHours[k]))).tokens
              IN  /\ sunFile.lines[k] = "solar" \o ToString(k)
                  /\ annFile.lines[k][3] = sunFile.lines[k]
                  /\ annFile.lines[k][10] = sunFile.lines[k]
                  /\ SubSeq(annFile.lines[k], 7, 9) = SubSeq(tokens, 7, 9)

\* two suns retained with a rejected hour between them
C6_Witness ==
    /\ ExecuteWrote
    /\ Len(last.sunUpHours) = 2
    /\ Len(last.ran) = 3
    /\ sunFile.lines = <<"solar1", "solar2">>

(***************************************************************************)
(* ImageBasedParameters.  A parameters object is a record: its quality,    *)
(* the attribute names registered as Radiance parameters (keys), the value *)
(* of every attribute that has been set, and whether @frozen has closed    *)
(* it.  Values are written as Python prints them; "None" is None.          *)
(***************************************************************************)
\* the value given for quality: None, or an integer v
NoneGiven == [none |-> TRUE, v |-> 0]
Given(v) == [none |-> FALSE, v |-> v]

\* seq[i] as Python indexes a list of three: a negative i counts from the end
PyIndex(seq, i) == IF i < 0 THEN seq[Len(seq) + i + 1] ELSE seq[i + 1]

\* _defaultset.rpict_number_parameters: attribute name, flag and the values of
\* the three tiers, as the class usage lists them
rpict_number_parameters ==
    << [attr |-> "ambientAccuracy", name |-> "aa", values |-> <<"0.25", "0.2", "0.1">>],
       [attr |-> "ambientBounces", name |-> "ab", values |-> <<"2", "3", "6">>],
       [attr |-> "ambientDivisions", name |-> "ad", values |-> <<"512", "2048", "4096">>],
       [attr |-> "directCertainty", name |-> "dc", values |-> <<"0.25", "0.5", "0.75">>],
       [attr |-> "specularThreshold", name |-> "st", values |-> <<"0.85", "0.5", "0.15">>],
       [attr |-> "limitWeight", name |-> "lw", values |-> <<"0.05", "0.01", "0.005">>],
       [attr |-> "ambientSupersamples", name |-> "as", values |-> <<"128", "2048", "4096">>],
       [attr |-> "ambientResolution", name |-> "ar", values |-> <<"16", "64", "128">>],
       [attr |-> "limitReflections", name |-> "lr", values |-> <<"4", "6", "8">>],
       [attr |-> "directThreshold", name |-> "dt", values |-> <<"0.5", "0.25", "0.15">>],
       [attr |-> "directSecRelays", name |-> "dr", values |-> <<"0", "1", "3">>],
       [attr |-> "directSampling", name |-> "ds", values |-> <<"0.5", "0.25", "0.05">>],
       [attr |-> "directPresampDensity", name |-> "dp", values |-> <<"64", "256", "512">>] >>

\* _defaultset.rpict_boolean_parameters
rpict_boolean_parameters ==
    << [attr |-> "uncorRandSamp", name |-> "u", values |-> <<"False", "False", "False">>] >>

\* the attributes __init__ registers and sets to None, in its order
InitAttributes ==
    << "ambientBounces", "ambientDivisions", "ambientSupersamples",
       "ambientResolution", "ambientAccuracy", "directJitter", "directSampling",
       "directThreshold", "directCertainty", "directSecRelays",
       "directPresampDensity", "specularThreshold", "limitWeight",
       "limitReflections", "specularSampling", "pixelSampling", "pixelTolerance",
       "pixelJitter", "pixelAspectRatio", "pixelMotionBlur", "pixelDepthOfField",
       "ambientValue", "ambientWeight", "directVisibility", "backFaceVisibility",
       "irradianceCalc", "uncorRandSamp" >>

\* AdvancedRadianceParameters.__init__: nothing registered, nothing set
NoQuality == 0 - 1
BareParameters ==
    [quality |-> NoQuality, keys |-> {}, values |-> <<>>, frozen |-> FALSE]

\* addRadianceNumber, addRadianceTuple, addRadianceBoolFlag: register attr
AddParameter(p, attr) == [p EXCEPT !.keys = @ \cup {attr}]

\* setattr(self, attr, value) under @frozen: once __init__ has returned, an
\* attribute the object does not have cannot be set
SetAttribute(p, attr, value) ==
    IF p.frozen /\ attr \notin p.keys /\ attr \notin DOMAIN p.values
    THEN [ok |-> FALSE, p |-> p]
    ELSE [ok |-> TRUE, p |-> [p EXCEPT !.values = (attr :> value) @@ @]]

\* line 422: value or 0
OrZero(given) == IF given.none \/ given.v = 0 THEN 0 ELSE given.v

\* mutant of QualityInRange: only the upper end is checked
QualityAtMostTwo(v) == v <= 2

\* line 424: 0 <= int(value) <= 2
QualityInRange(v) == 0 <= v /\ v <= 2

\* lines 431-441: every row of a table is registered and set to the value of
\* the tier self.quality; an assignment that raises ends the loop
RECURSIVE AddDefaults(_, _, _)
AddDefaults(p, table, i) ==
    IF i > Len(table) THEN [ok |-> TRUE, p |-> p]
    ELSE LET data == table[i]
             added == AddParameter(p, data.attr)
             set == SetAttribute(added, data.attr, PyIndex(data.values, added.quality))
         IN  IF ~set.ok THEN set ELSE AddDefaults(set.p, table, i + 1)

\* mutant of QualitySetter: the defaults are taken before _quality is updated
QualitySetterStale(p, given) ==
    LET value == OrZero(given)
    IN  IF ~QualityInRange(value) THEN [ok |-> FALSE, p |-> p]
        ELSE LET numbers == AddDefaults(p, rpict_number_parameters, 1)
                 all == AddDefaults(numbers.p, rpict_boolean_parameters, 1)
             IN  IF ~numbers.ok THEN numbers
                 ELSE [ok |-> all.ok, p |-> [all.p EXCEPT !.quality = value]]

\* the quality setter, lines 419-441
QualitySetter(p, given) ==
    LET value == OrZero(given)
    IN  IF ~QualityInRange(value) THEN [ok |-> FALSE, p |-> p]
        ELSE LET q == [p EXCEPT !.quality = value]
                 numbers == AddDefaults(q, rpict_number_parameters, 1)
             IN  IF ~numbers.ok THEN numbers
                 ELSE AddDefaults(numbers.p, rpict_boolean_parameters, 1)

\* lines 50-381 of __init__: each attribute is registered, then set to None
RECURSIVE AddUnset(_, _)
AddUnset(p, i) ==
    IF i > Len(InitAttributes) THEN [ok |-> TRUE, p |-> p]
    ELSE LET added == AddParameter(p, InitAttributes[i])
             set == SetAttribute(added, InitAttributes[i], "None")
         IN  IF ~set.ok THEN set ELSE AddUnset(set.p, i + 1)

\* mutant of Construct: the class is not decorated with @frozen
ConstructNotFrozen(given) ==
    LET tiered == QualitySetter(BareParameters, given)
    IN  IF ~tiered.ok THEN tiered ELSE AddUnset(tiered.p, 1)

\* @frozen ImageBasedParameters(quality), lines 7-8 and 44-390
Construct(given) ==
    LET tiered == QualitySetter(BareParameters, given)
        unset == AddUnset(tiered.p, 1)
    IN  IF ~tiered.ok THEN tiered
        ELSE IF ~unset.ok THEN unset
        ELSE [ok |-> TRUE, p |-> [unset.p EXCEPT !.frozen = TRUE]]

\* LowQuality(), MediumQuality(), HighQuality(): lines 391-404
LowQuality == Construct(Given(0))
MediumQuality == Construct(Given(1))
HighQuality == Construct(Given(2))

\* the qualities callers give
QualityInputs ==
    {NoneGiven} \cup {Given(v) : v \in (0 - MaxOutside)..(2 + MaxOutside)}

\* the assignments callers make: tier-controlled and other parameters, and
\* an attribute the class does not have
AssignInputs ==
    { <<"ambientBounces", "5">>, <<"ambientBounces", "None">>,
      <<"uncorRandSamp", "True">>, <<"pixelSampling", "1">>,
      <<"ambientValue", "(0, 0, 0)">>, <<"skyDensity", "2">> }

NoParamCall(given) ==
    [op |-> "new", ok |-> TRUE, given |-> given, attr |-> "", value |-> "",
     before |-> BareParameters]

\* rp = ImageBasedParameters(given); a failed construction leaves no new object
NewParameters(given) ==
    LET made == Construct(given)
    IN  /\ params' = IF made.ok THEN made.p ELSE params
        /\ plast' = [NoParamCall(given) EXCEPT !.ok = made.ok, !.before = params]
        /\ UNCHANGED <<sunVars, recVars>>

\* rp.quality = given
SetQuality(given) ==
    LET set == QualitySetter(params, given)
    IN  /\ params' = set.p
        /\ plast' = [NoParamCall(given) EXCEPT !.op = "quality", !.ok = set.ok,
                                               !.before = params]
        /\ UNCHANGED <<sunVars, recVars>>

\* rp.getParameterDefaultValueBasedOnQuality(parameter), lines 443-466:
\* nothing when the quality is 0, otherwise the value of the table of
\* boolean parameters; a parameter that is not a key fails the assertion and
\* one that is not in that table raises KeyError
getParameterDefaultValueBasedOnQuality(p, parameter) ==
    LET rows == {row \in Range(rpict_boolean_parameters) : row.attr = parameter}
    IN  IF p.quality = 0 THEN [ok |-> TRUE, value |-> "None"]
        ELSE IF parameter \notin p.keys
        THEN [ok |-> FALSE, value |-> "AssertionError"]
        ELSE IF rows = {} THEN [ok |-> FALSE, value |-> "KeyError"]
        ELSE [ok |-> TRUE,
              value |-> (CHOOSE row \in rows : TRUE).values[p.quality + 1]]

\* the parameters callers ask the default of: a number and a boolean
\* parameter, a Radiance name and an attribute the class does not have
DefaultInputs == {"ambientBounces", "uncorRandSamp", "ab", "skyDensity"}

\* rp.getParameterDefaultValueBasedOnQuality(parameter)
GetDefault(parameter) ==
    LET got == getParameterDefaultValueBasedOnQuality(params, parameter)
    IN  /\ plast' = [NoParamCall(NoneGiven) EXCEPT
                        !.op = "default", !.ok = got.ok, !.attr = parameter,
                        !.value = got.value, !.before = params]
        /\ UNCHANGED <<params, sunVars, recVars>>

\* rp.<attr> = value
SetParameter(attr, value) ==
    LET set == SetAttribute(params, attr, value)
    IN  /\ params' = set.p
        /\ plast' = [NoParamCall(NoneGiven) EXCEPT !.op = "assign", !.ok = set.ok,
                        !.attr = attr, !.value = value, !.before = params]
        /\ UNCHANGED <<sunVars, recVars>>

(***************************************************************************)
(* The grid-based recipes: GridBased (recipe/gridbased.py) and             *)
(* DaylightCoeffGridBased (recipe/dc/gridbased.py).                        *)
(*                                                                         *)
(* A path is the sequence of its components; an absolute path begins with  *)
(* the drive.  What callers pass as a sky is an object with the set of     *)
(* attributes that hasattr() finds on it.                                  *)
(***************************************************************************)
Drive == "c:"
isabs(path) == path # <<>> /\ path[1] = Drive

\* os.path.join(a, b): an absolute b stands alone
join(a, b) == IF isabs(b) THEN b ELSE a \o b

\* the length of the longest common prefix of two paths
RECURSIVE CommonPrefix(_, _)
CommonPrefix(a, b) ==
    IF a = <<>> \/ b = <<>> \/ Head(a) # Head(b) THEN 0
    ELSE 1 + CommonPrefix(Tail(a), Tail(b))

\* self.relpath(path, start): the way from the folder start to path
relpath(path, start) ==
    LET c == CommonPrefix(path, start)
    IN  [i \in 1..(Len(start) - c) |-> ".."] \o SubSeq(path, c + 1, Len(path))

hasattr(obj, attr) == attr \in obj.attrs

\* the skies of the usage notes: a point-in-time sky with a fixed
\* illuminance, a climate-based sky, a sky matrix of a density, a sky vector;
\* and an object that is no sky at all
SkyWithCertainIlluminanceLevel ==
    [cls |-> "SkyWithCertainIlluminanceLevel", name |-> "illum",
     attrs |-> {"isRadianceSky", "isClimateBased"},
     isClimateBased |-> FALSE, skyDensity |-> 0]
ClimateBasedSky ==
    [cls |-> "ClimateBasedSky", name |-> "climate",
     attrs |-> {"isRadianceSky", "isClimateBased"},
     isClimateBased |-> TRUE, skyDensity |-> 0]
SkyMatrix(skyDensity) ==
    [cls |-> "SkyMatrix", name |-> "skymtx_r" \o ToString(skyDensity),
     attrs |-> {"skyDensity", "isSkyMatrix", "hoys", "name"},
     isClimateBased |-> TRUE, skyDensity |-> skyDensity]
SkyVector ==
    [cls |-> "SkyVector", name |-> "skyvec",
     attrs |-> {"skyDensity", "isSkyVector", "name"},
     isClimateBased |-> FALSE, skyDensity |-> 1]
NotASky ==
    [cls |-> "str", name |-> "", attrs |-> {}, isClimateBased |-> FALSE,
     skyDensity |-> 0]

\* an analysis grid of n points; rows are the rows of a results file it was
\* last given, by their 0-based row numbers
AnalysisGrid(n) == [points |-> n, loaded |-> FALSE, rows |-> <<>>]
len(analysisGrid) == analysisGrid.points

NoRecipe ==
    [cls |-> "none", sky |-> NotASky, simType |-> NoneGiven,
     analysisGrids |-> <<>>, reuseDaylightMtx |-> FALSE,
     isCalculated |-> FALSE, commands |-> <<>>, resultsFile |-> <<>>,
     subFolder |-> ""]

\* GenericGridBased.__init__(self, analysisGrids, hbObjects, subFolder)
GenericGridBased(cls, analysisGrids, subFolder) ==
    [NoRecipe EXCEPT !.cls = cls, !.analysisGrids = analysisGrids,
                     !.subFolder = subFolder]

\* GridBased.sky = newSky, lines 127-131
SkySetter(r, newSky) ==
    IF ~hasattr(newSky, "isRadianceSky") THEN [ok |-> FALSE, r |-> r]
    ELSE [ok |-> TRUE, r |-> [r EXCEPT !.sky = newSky]]

\* int(value) of lines 107-110: None raises TypeError and is taken as 0
int(given) == IF given.none THEN 0 ELSE given.v

\* mutant of SimulationTypeInRange: no upper limit
SimulationTypeAtLeastZero(value) == 0 <= value

\* the assertion of lines 112-113
SimulationTypeInRange(value) == 0 <= value /\ value <= 2

\* mutant of RadiationSkyAllowed: radiation under any sky
RadiationUnderAnySky(r, value) == TRUE

\* the assertion of lines 116-118
RadiationSkyAllowed(r, value) == value = 1 => r.sky.isClimateBased

\* GridBased.simulationType = given, lines 105-120
SimulationTypeSetter(r, given) ==
    LET value == int(given)
    IN  IF ~SimulationTypeInRange(value) THEN [ok |-> FALSE, r |-> r]
        ELSE IF ~RadiationSkyAllowed(r, value) THEN [ok |-> FALSE, r |-> r]
        ELSE [ok |-> TRUE, r |-> [r EXCEPT !.simType = Given(value)]]

\* GridBased(sky, analysisGrids, simulationType), lines 52-68; the default
\* radiance parameters are always accepted
GridBased(sky, analysisGrids, simulationType) ==
    LET base == GenericGridBased("GridBased", analysisGrids, "gridbased")
        withSky == SkySetter(base, sky)
    IN  IF ~withSky.ok THEN withSky
        ELSE SimulationTypeSetter(withSky.r, simulationType)

\* DaylightCoeffGridBased(skyMtx, analysisGrids, simulationType,
\* reuseDaylightMtx=...), lines 48-62: simulationType is received and never
\* looked at or stored
DaylightCoeffGridBased(skyMtx, analysisGrids, simulationType, reuseDaylightMtx) ==
    LET base == GenericGridBased("DaylightCoeffGridBased", analysisGrids,
                                 "gridbased_daylightcoeff")
    IN  IF ~hasattr(skyMtx, "skyDensity") THEN [ok |-> FALSE, r |-> base]
        ELSE [ok |-> TRUE,
              r |-> [base EXCEPT !.sky = skyMtx,
                                 !.reuseDaylightMtx = reuseDaylightMtx]]

(***************************************************************************)
(* Files of the target folder: a file is its absolute path and the number  *)
(* of rows it holds (0 where rows play no part).                           *)
(***************************************************************************)
isfile(d, path) == \E f \in d : f.path = path
writeToFile(d, path, rows) ==
    {f \in d : f.path # path} \cup {[path |-> path, rows |-> rows]}
rowsOf(d, path) == (CHOOSE f \in d : f.path = path).rows

targetFolder == <<Drive, "ladybug">>

RECURSIVE SumPoints(_, _)
SumPoints(analysisGrids, n) ==
    IF n = 0 THEN 0
    ELSE SumPoints(analysisGrids, n - 1) + len(analysisGrids[n])

numOfTotalPoints(r) == SumPoints(r.analysisGrids, Len(r.analysisGrids))

\* populateSubFolders(targetFolder, projectName): the folder of the analysis
\* and its material and geometry files; the recipes pass no scene, so there
\* are no further scene files
populateSubFolders(r, d, projectName) ==
    LET path == targetFolder \o <<projectName, r.subFolder>>
        matFile == join(path, <<projectName \o ".mat">>)
        geoFile == join(path, <<projectName \o ".rad">>)
    IN  [path |-> path, matFile |-> matFile, geoFile |-> geoFile,
         sceneMatFiles |-> <<>>, sceneRadFiles |-> <<>>, sceneOctFiles |-> <<>>,
         disk |-> writeToFile(writeToFile(d, matFile, 0), geoFile, 0)]

\* writePointsToFile(path, projectName): every grid's points, in grid order
writePointsToFile(r, d, path, projectName) ==
    LET pointsFile == join(path, <<projectName \o ".pts">>)
    IN  [pointsFile |-> pointsFile,
         disk |-> writeToFile(d, pointsFile, numOfTotalPoints(r))]

\* entries of self.commands
Header(path) ==
    [kind |-> "header", text |-> "cd", inputs |-> <<>>, output |-> <<>>]
Comment(text) ==
    [kind |-> "comment", text |-> text, inputs |-> <<>>, output |-> <<>>]
Command(program, inputs, output) ==
    [kind |-> "command", text |-> program, inputs |-> inputs, output |-> output]

RelativeTo(files, start) == [i \in 1..Len(files) |-> relpath(files[i], start)]

\* os.path.normpath of a relative path: the components "." say nothing
normpath(path) == SelectSeq(path, LAMBDA c : c # ".")

\* an output name as a caller writes it: the components of its path, the
\* last one without its extension, and the extension ("" when it has none)
OutputName(path, ext) == [path |-> path, ext |-> ext]

\* Oconv(outputName).outputFile: the output name, given the extension .oct
\* when it does not end with it, as a normalized path
OconvOutputFile(outputName) ==
    LET ext == IF outputName.ext = ".oct" THEN "" ELSE ".oct"
        n == Len(outputName.path)
    IN  normpath([i \in 1..n |->
                    IF i = n THEN outputName.path[i] \o outputName.ext \o ext
                    ELSE outputName.path[i]])

\* mutant of RtraceOctreeFile: rtrace is given the octree of the default name
RtraceOctreeFileUntitled(oc) == <<"untitled.oct">>

\* rt.octreeFile = str(oc.outputFile), line 202
RtraceOctreeFile(oc) == oc.output

\* mutant of OconvSceneFiles: the scene files as they are on disk
OconvSceneFilesAsWritten(octSceneFiles, path) == octSceneFiles

\* oc.sceneFiles of lines 194-195
OconvSceneFiles(octSceneFiles, path) == RelativeTo(octSceneFiles, path)

\* GridBased.write(targetFolder, projectName, header), lines 146-225
GridBasedWrite(r, d, projectName, header) ==
    LET sceneFiles == populateSubFolders(r, d, projectName)
        pts == writePointsToFile(r, sceneFiles.disk, sceneFiles.path, projectName)
        skyFile == join(sceneFiles.path, <<"skies", r.sky.name \o ".sky">>)
        d2 == writeToFile(pts.disk, skyFile, 0)
        octSceneFiles == <<skyFile, sceneFiles.matFile, sceneFiles.geoFile>>
                           \o sceneFiles.sceneMatFiles \o sceneFiles.sceneRadFiles
                           \o sceneFiles.sceneOctFiles
        oc == Command("oconv", OconvSceneFiles(octSceneFiles, sceneFiles.path),
                      OconvOutputFile(OutputName(<<projectName>>, "")))
        rt == Command("rtrace",
                      <<RtraceOctreeFile(oc), relpath(pts.pointsFile, sceneFiles.path)>>,
                      <<"results", projectName \o ".res">>)
        rc == Command("rcalc", <<rt.output>>,
                      <<"results", projectName \o ".ill">>)
        commands == (IF header THEN <<Header(sceneFiles.path)>> ELSE <<>>)
                      \o <<oc, rt, rc>>
        batchFile == join(sceneFiles.path, <<"commands.bat">>)
    IN  [ok |-> TRUE, error |-> "",
         r |-> [r EXCEPT !.commands = commands,
                         !.resultsFile = <<join(sceneFiles.path, rc.output)>>],
         disk |-> writeToFile(d2, batchFile, 0),
         path |-> sceneFiles.path,
         events |-> <<"points", "oconv", "rtrace", "rcalc">>]

\* skymtxToGendaymtx(skyMatrix, path): the gendaymtx command that makes the
\* sky matrix from its weather file, or nothing when both are already there
skymtxToGendaymtx(skyMatrix, d, path) ==
    LET weaFile == <<"skies", skyMatrix.name \o ".wea">>
        skyMtxName == <<"skies", skyMatrix.name \o ".smx">>
    IN  IF isfile(d, join(path, skyMtxName)) /\ isfile(d, join(path, weaFile))
        THEN [gdm |-> <<>>, disk |-> d]
        ELSE [gdm |-> <<Command("gendaymtx", <<weaFile>>, skyMtxName)>>,
              disk |-> writeToFile(d, join(path, weaFile), 0)]

\* the name of the daylight matrix, lines 183-184
DaylightMtxName(projectName, skyDensity, points) ==
    <<"results", "matrix",
      projectName \o "_" \o ToString(skyDensity) \o "_" \o ToString(points)
         \o ".dc">>

\* mutant of NeedDaylightMtx: a matrix on disk is always taken
NeedDaylightMtxIgnoringReuse(d, file, reuseDaylightMtx) == ~isfile(d, file)

\* the condition of lines 186-187
NeedDaylightMtx(d, file, reuseDaylightMtx) ==
    ~isfile(d, file) \/ ~reuseDaylightMtx

\* mutant of CommandList: the matrix calculation ahead of the daylight matrix
CommandListCalculationFirst(top, sky, daylight, calculation, conversion) ==
    top \o sky \o calculation \o daylight \o conversion

\* self.commands in the order of its appends, lines 162-212
CommandList(top, sky, daylight, calculation, conversion) ==
    top \o sky \o daylight \o calculation \o conversion

\* the stages of a command list, by their comment lines, in order
Stages(commands) ==
    LET comments == SelectSeq(commands, LAMBDA c : c.kind = "comment")
    IN  [i \in 1..Len(comments) |-> comments[i].text]

\* DaylightCoeffGridBased.write(targetFolder, projectName, header),
\* lines 138-222
DaylightCoeffWrite(r, d, projectName, header) ==
    LET sceneFiles == populateSubFolders(r, d, projectName)
        path == sceneFiles.path
        pts == writePointsToFile(r, sceneFiles.disk, path, projectName)
        top == IF header THEN <<Header(path)>> ELSE <<>>
        skyMtx == <<"skies", r.sky.name \o ".smx">>
    IN
    IF ~hasattr(r.sky, "isSkyMatrix")
    THEN [ok |-> FALSE, error |-> "TypeError",
          r |-> [r EXCEPT !.commands = top, !.resultsFile = <<>>],
          disk |-> pts.disk, path |-> path,
          events |-> <<"points">>]
    ELSE
      LET made == skymtxToGendaymtx(r.sky, pts.disk, path)
          sky == IF made.gdm = <<>> THEN <<>>
                 ELSE <<Comment(":: sky matrix")>> \o made.gdm
          rfluxFiles == <<sceneFiles.matFile, sceneFiles.geoFile>>
                          \o sceneFiles.sceneMatFiles \o sceneFiles.sceneRadFiles
                          \o sceneFiles.sceneOctFiles
          dMatrix == DaylightMtxName(projectName, r.sky.skyDensity,
                                     numOfTotalPoints(r))
          need == NeedDaylightMtx(made.disk, join(path, dMatrix),
                                  r.reuseDaylightMtx)
          receiver == join(path, <<"skies", "rfluxSky.rad">>)
          d3 == IF need THEN writeToFile(made.disk, receiver, 0) ELSE made.disk
          rflux == Command("rfluxmtx",
                           <<relpath(receiver, path)>>
                              \o RelativeTo(rfluxFiles, path)
                              \o <<relpath(pts.pointsFile, path)>>,
                           dMatrix)
          daylight == IF need THEN <<Comment(":: daylight matrix"), rflux>>
                      ELSE <<>>
          dct == Command("dctimestep", <<dMatrix, skyMtx>>,
                         <<".tmp", "illuminance.tmp">>)
          finalmtx == Command("rmtxop", <<dct.output>>,
                              <<"results", "illuminance.ill">>)
          commands == CommandList(
                          top, sky, daylight,
                          <<Comment(":: final matrix calculations"), dct>>,
                          <<Comment(":: convert RGB values to illuminance"),
                            finalmtx>>)
      IN  [ok |-> TRUE, error |-> "",
           r |-> [r EXCEPT !.commands = commands,
                           !.resultsFile = <<join(path, finalmtx.output)>>],
           disk |-> writeToFile(d3, join(path, <<"commands.bat">>), 0),
           path |-> path,
           events |-> <<"points">> \o Stages(commands)]

\* run(commandFile): the commands of the batch file, one after the other in
\* the folder of the batch file; a command whose inputs are there leaves its
\* output, with a row for each row of its largest input
RECURSIVE RunCommands(_, _, _, _)
RunCommands(commands, i, d, path) ==
    IF i > Len(commands) THEN d
    ELSE
      LET c == commands[i]
          ready == /\ c.kind = "command"
                   /\ \A k \in 1..Len(c.inputs) : isfile(d, join(path, c.inputs[k]))
          rows == Max({rowsOf(d, join(path, c.inputs[k])) : k \in 1..Len(c.inputs)})
      IN  IF ready
          THEN RunCommands(commands, i + 1,
                           writeToFile(d, join(path, c.output), rows), path)
          ELSE RunCommands(commands, i + 1, d, path)

\* AnalysisGrid.setValuesFromFile(file, hoys, startLine): the grid takes
\* len(grid) rows of the file from row startLine on
setValuesFromFile(analysisGrid, d, file, startLine) ==
    IF ~isfile(d, file) THEN [ok |-> FALSE, grid |-> analysisGrid]
    ELSE IF rowsOf(d, file) < startLine + len(analysisGrid)
    THEN [ok |-> FALSE, grid |-> analysisGrid]
    ELSE [ok |-> TRUE,
          grid |-> [analysisGrid EXCEPT
                      !.loaded = TRUE,
                      !.rows = [i \in 1..len(analysisGrid) |-> startLine + i - 1]]]

\* mutant of Calculated: results are handed out at any time
CalculatedOrNot(r) == TRUE

\* the assertion of lines 229-231, and of lines 226-228 of dc/gridbased.py
Calculated(r) == r.isCalculated

\* mutant of NextStartLine: the length of the grid before, not the sum
NextStartLineOfOneGrid(analysisGrids, count, startLine) ==
    IF count # 0 THEN len(analysisGrids[count]) ELSE startLine

\* lines 240-241 for the grid of 0-based position count: analysisGrids[count - 1]
\* is the element at count of the 1-based sequence
NextStartLine(analysisGrids, count, startLine) ==
    IF count # 0 THEN startLine + len(analysisGrids[count]) ELSE startLine

\* the loop of lines 239-245; a file that cannot be read ends it
RECURSIVE GridBasedLoop(_, _, _, _, _)
GridBasedLoop(analysisGrids, d, rf, count, startLine) ==
    IF count >= Len(analysisGrids) THEN [ok |-> TRUE, grids |-> analysisGrids]
    ELSE
      LET start == NextStartLine(analysisGrids, count, startLine)
          set == setValuesFromFile(analysisGrids[count + 1], d, rf, start)
          grids == [analysisGrids EXCEPT ![count + 1] = set.grid]
      IN  IF ~set.ok THEN [ok |-> FALSE, grids |-> grids]
          ELSE GridBasedLoop(grids, d, rf, count + 1, start)

\* GridBased.results(), lines 227-247
GridBasedResults(r, d) ==
    IF ~Calculated(r)
    THEN [ok |-> FALSE, error |-> "not run yet", read |-> FALSE, r |-> r]
    ELSE
      LET done == GridBasedLoop(r.analysisGrids, d, r.resultsFile[1], 0, 0)
      IN  [ok |-> done.ok,
           error |-> IF done.ok THEN "" ELSE "results file",
           read |-> r.analysisGrids # <<>>,
           r |-> [r EXCEPT !.analysisGrids = done.grids]]

\* the loop of lines 230-232: every results file goes to analysisGrids[0]
RECURSIVE DaylightCoeffLoop(_, _, _, _)
DaylightCoeffLoop(analysisGrids, d, resultsFile, i) ==
    IF i > Len(resultsFile) THEN [ok |-> TRUE, grids |-> analysisGrids]
    ELSE IF analysisGrids = <<>> THEN [ok |-> FALSE, grids |-> analysisGrids]
    ELSE
      LET set == setValuesFromFile(analysisGrids[1], d, resultsFile[i], 0)
          grids == [analysisGrids EXCEPT ![1] = set.grid]
      IN  IF ~set.ok THEN [ok |-> FALSE, grids |-> grids]
          ELSE DaylightCoeffLoop(grids, d, resultsFile, i + 1)

\* DaylightCoeffGridBased.results(), lines 224-233
DaylightCoeffResults(r, d) ==
    IF ~Calculated(r)
    THEN [ok |-> FALSE, error |-> "not run yet", read |-> FALSE, r |-> r]
    ELSE
      LET done == DaylightCoeffLoop(r.analysisGrids, d, r.resultsFile, 1)
      IN  [ok |-> done.ok,
           error |-> IF done.ok THEN "" ELSE "results file",
           read |-> r.resultsFile # <<>>,
           r |-> [r EXCEPT !.analysisGrids = done.grids]]

(***************************************************************************)
(* What callers pass to the recipes, and the calls they make.              *)
(***************************************************************************)
\* the point counts of the grids of a recipe, the first NumGridChoices of
GridChoices == << <<3, 5, 2>>, <<2>>, <<1, 1>>, <<2, 1>>, <<4>> >>

GridInputs ==
    {[i \in 1..Len(GridChoices[c]) |-> AnalysisGrid(GridChoices[c][i])] :
        c \in 1..(IF NumGridChoices < Len(GridChoices)
                  THEN NumGridChoices ELSE Len(GridChoices))}

SimulationTypeInputs ==
    {NoneGiven} \cup {Given(v) : v \in (0 - MaxOutside)..(2 + MaxOutside)}

GridBasedSkyInputs == {SkyWithCertainIlluminanceLevel, ClimateBasedSky, NotASky}
DaylightCoeffSkyInputs == {SkyMatrix(1), SkyMatrix(2), SkyVector, NotASky}
ProjectNames == {"room", "room_1"}

\* the output names of the test of Oconv and of GridBased.write
OconvInputs ==
    { OutputName(<<".", "tests", "room", "testrun", "room">>, ".oct"),
      OutputName(<<"tests", "room", "testrun", "room">>, ".oct"),
      OutputName(<<"room">>, ""),
      OutputName(<<".", "room_1">>, "") }

NoRecipeCall ==
    [op |-> "none", ok |-> TRUE, error |-> "", cls |-> "none",
     simulationType |-> NoneGiven, sky |-> NotASky, projectName |-> "",
     read |-> FALSE, simTypeBefore |-> NoneGiven, unchanged |-> TRUE,
     path |-> <<>>, events |-> <<>>, outputName |-> OutputName(<<>>, "")]

NoRecipeYet ==
    /\ recipe = NoRecipe
    /\ disk = {}
    /\ rlast = NoRecipeCall

\* a call on the recipe: what the recipe was before it, and whether the call
\* left every field of it as it was
RecipeCall(op, after) ==
    [NoRecipeCall EXCEPT !.op = op, !.cls = recipe.cls,
                         !.simTypeBefore = recipe.simType,
                         !.unchanged = (after = recipe)]

\* the daylight matrices on disk
DaylightMatrices(d) ==
    {f \in d : Len(f.path) > 2 /\ f.path[Len(f.path) - 1] = "matrix"}

\* a caller makes a recipe when it has none, and another one after a run
\* while the folder holds fewer than MaxMatrices daylight matrices
MayConstruct ==
    \/ recipe.cls = "none"
    \/ rlast.op = "run" /\ Cardinality(DaylightMatrices(disk)) < MaxMatrices

\* recipe = GridBased(sky, analysisGrids, simulationType); a construction
\* that fails leaves no new object
NewGridBased(sky, analysisGrids, simulationType) ==
    /\ MayConstruct
    /\ LET made == GridBased(sky, analysisGrids, simulationType)
       IN  /\ recipe' = IF made.ok THEN made.r ELSE recipe
           /\ rlast' = [RecipeCall("new", recipe) EXCEPT
                           !.cls = "GridBased", !.ok = made.ok, !.sky = sky,
                           !.simulationType = simulationType]
    /\ UNCHANGED <<disk, sunVars, paramVars>>

\* recipe = DaylightCoeffGridBased(skyMtx, analysisGrids, simulationType,
\*                                 reuseDaylightMtx=reuseDaylightMtx)
NewDaylightCoeffGridBased(skyMtx, analysisGrids, simulationType, reuseDaylightMtx) ==
    /\ MayConstruct
    /\ LET made == DaylightCoeffGridBased(skyMtx, analysisGrids, simulationType,
                                          reuseDaylightMtx)
       IN  /\ recipe' = IF made.ok THEN made.r ELSE recipe
           /\ rlast' = [RecipeCall("new", recipe) EXCEPT
                           !.cls = "DaylightCoeffGridBased", !.ok = made.ok,
                           !.sky = skyMtx, !.simulationType = simulationType]
    /\ UNCHANGED <<disk, sunVars, paramVars>>

\* recipe.simulationType = given
AssignSimulationType(given) ==
    /\ recipe.cls = "GridBased"
    /\ LET set == SimulationTypeSetter(recipe, given)
       IN  /\ recipe' = set.r
           /\ rlast' = [RecipeCall("simulationType", set.r) EXCEPT
                           !.ok = set.ok, !.simulationType = given]
    /\ UNCHANGED <<disk, sunVars, paramVars>>

\* recipe.sky = newSky
AssignSky(newSky) ==
    /\ recipe.cls = "GridBased"
    /\ LET set == SkySetter(recipe, newSky)
       IN  /\ recipe' = set.r
           /\ rlast' = [RecipeCall("sky", set.r) EXCEPT !.ok = set.ok, !.sky = newSky]
    /\ UNCHANGED <<disk, sunVars, paramVars>>

\* recipe.write(targetFolder, projectName, header); a target folder is used
\* for one project and one kind of analysis
Write(projectName, header) ==
    /\ recipe.cls # "none"
    /\ \A f \in disk :
          CommonPrefix(f.path, targetFolder \o <<projectName, recipe.subFolder>>)
             = Len(targetFolder) + 2
    /\ LET wrote == IF recipe.cls = "GridBased"
                    THEN GridBasedWrite(recipe, disk, projectName, header)
                    ELSE DaylightCoeffWrite(recipe, disk, projectName, header)
       IN  /\ recipe' = wrote.r
           /\ disk' = wrote.disk
           /\ rlast' = [RecipeCall("write", wrote.r) EXCEPT
                           !.ok = wrote.ok, !.error = wrote.error,
                           !.projectName = projectName,
                           !.path = wrote.path, !.events = wrote.events]
    /\ UNCHANGED <<sunVars, paramVars>>

\* recipe.run(commandFile) with the batch file of the write before it
Run ==
    /\ rlast.op = "write"
    /\ rlast.ok
    /\ recipe' = [recipe EXCEPT !.isCalculated = TRUE]
    /\ disk' = RunCommands(recipe.commands, 1, disk, rlast.path)
    /\ rlast' = [RecipeCall("run", recipe) EXCEPT !.path = rlast.path]
    /\ UNCHANGED <<sunVars, paramVars>>

\* Oconv(outputName=outputName, sceneFiles=...).execute() on its own, as
\* the test of the command runs it, the octree removed again afterwards:
\* what comes back is the output file of the command
ExecuteOconv(outputName) ==
    /\ recipe.cls = "none"
    /\ rlast' = [RecipeCall("oconv", recipe) EXCEPT
                    !.outputName = outputName,
                    !.path = OconvOutputFile(outputName)]
    /\ UNCHANGED <<recipe, disk, sunVars, paramVars>>

\* recipe.results()
Results ==
    /\ recipe.cls # "none"
    /\ LET got == IF recipe.cls = "GridBased"
                  THEN GridBasedResults(recipe, disk)
                  ELSE DaylightCoeffResults(recipe, disk)
       IN  /\ recipe' = got.r
           /\ rlast' = [RecipeCall("results", got.r) EXCEPT
                           !.ok = got.ok, !.error = got.error,
                           !.read = got.read]
    /\ UNCHANGED <<disk, sunVars, paramVars>>

(***************************************************************************)
(* Specifications.                                                         *)
(***************************************************************************)
FolderIsEmpty ==
    /\ hrsFile = NoHours
    /\ annFile = NoLines
    /\ sunFile = NoLines
    /\ mtxFile = NoMatrix

SunInit ==
    /\ \E given \in HoyInputs :
          /\ asked = HoysGiven(given)
          /\ hoys = SunMatrixHoys(given)
    /\ hrsFile = NoHours
    /\ annFile = NoLines
    /\ sunFile = NoLines
    /\ mtxFile = NoMatrix
    /\ last = NoCall
    /\ gdOutput = NoOutput
    /\ NoRuns
    /\ params = BareParameters
    /\ plast = NoParamCall(NoneGiven)
    /\ NoRecipeYet

SunNext ==
    \/ \E given \in HoyInputs : NewSunMatrix(HoysGiven(given))
    \/ \E reuse \in BOOLEAN, gendaylitRuns \in BOOLEAN :
          Execute(reuse, gendaylitRuns)
    \/ \E f \in {"hrs", "ann", "sun", "mtx"} : RemoveFile(f)

SunSpec == SunInit /\ [][SunNext]_vars

\* two callers of execute on one folder
RaceInit ==
    /\ NoRuns
    /\ asked = HoysGiven(<<0>>)
    /\ hoys = SunMatrixHoys(<<0>>)
    /\ FolderIsEmpty
    /\ last = NoCall
    /\ gdOutput = NoOutput
    /\ params = BareParameters
    /\ plast = NoParamCall(NoneGiven)
    /\ NoRecipeYet

RaceNext ==
    \/ \E c \in Callers, hs \in RaceInputs, reuse \in BOOLEAN :
          BeginExecute(c, hs, reuse)
    \/ \E c \in Callers : CheckFolder(c)
    \/ \E c \in Callers : WriteHoursFile(c)
    \/ \E c \in Callers, gendaylitRuns \in BOOLEAN :
          WriteAnalemmaFile(c, gendaylitRuns)
    \/ \E c \in Callers : WriteSunListFile(c)
    \/ \E c \in Callers : WriteMatrixFile(c)

RaceSpec == RaceInit /\ [][RaceNext]_vars

\* the parser of lines 172-180 applied to the lines of one run of gendaylit
ParserInit ==
    /\ \E lines \in LineInputs : gdOutput = Communicate(lines \o SkyTail)
    /\ NoRuns
    /\ asked = HoysGiven(<<0>>)
    /\ hoys = SunMatrixHoys(<<0>>)
    /\ FolderIsEmpty
    /\ last = NoCall
    /\ params = BareParameters
    /\ plast = NoParamCall(NoneGiven)
    /\ NoRecipeYet

ParserNext ==
    \/ \E lines \in LineInputs : NextHour(lines \o SkyTail)
    \/ CleanTheOutput

ParserSpec == ParserInit /\ [][ParserNext]_vars

\* a sky made with any of YearInputs and executed in a folder of its own
YearInit ==
    /\ \E given \in YearInputs :
          /\ asked = given
          /\ hoys = SunMatrixHoys(given.hoys)
    /\ FolderIsEmpty
    /\ last = NoCall
    /\ gdOutput = NoOutput
    /\ NoRuns
    /\ params = BareParameters
    /\ plast = NoParamCall(NoneGiven)
    /\ NoRecipeYet

YearNext ==
    \/ \E given \in YearInputs : FolderIsEmpty /\ NewSunMatrix(given)
    \/ \E reuse \in BOOLEAN, gendaylitRuns \in BOOLEAN :
          Execute(reuse, gendaylitRuns)

YearSpec == YearInit /\ [][YearNext]_vars

ParamInit ==
    /\ \E given \in QualityInputs :
          /\ Construct(given).ok
          /\ params = Construct(given).p
          /\ plast = NoParamCall(given)
    /\ asked = HoysGiven(<<0>>)
    /\ hoys = SunMatrixHoys(<<0>>)
    /\ hrsFile = NoHours
    /\ annFile = NoLines
    /\ sunFile = NoLines
    /\ mtxFile = NoMatrix
    /\ last = NoCall
    /\ gdOutput = NoOutput
    /\ NoRuns
    /\ NoRecipeYet

ParamNext ==
    \/ \E given \in QualityInputs : NewParameters(given)
    \/ \E given \in QualityInputs : SetQuality(given)
    \/ \E a \in AssignInputs : SetParameter(a[1], a[2])
    \/ \E parameter \in DefaultInputs : GetDefault(parameter)

ParamSpec == ParamInit /\ [][ParamNext]_vars

RecipeInit ==
    /\ NoRecipeYet
    /\ asked = HoysGiven(<<0>>)
    /\ hoys = SunMatrixHoys(<<0>>)
    /\ hrsFile = NoHours
    /\ annFile = NoLines
    /\ sunFile = NoLines
    /\ mtxFile = NoMatrix
    /\ last = NoCall
    /\ gdOutput = NoOutput
    /\ NoRuns
    /\ params = BareParameters
    /\ plast = NoParamCall(NoneGiven)

RecipeNext ==
    \/ \E sky \in GridBasedSkyInputs, analysisGrids \in GridInputs,
          simulationType \in SimulationTypeInputs :
          NewGridBased(sky, analysisGrids, simulationType)
    \/ \E skyMtx \in DaylightCoeffSkyInputs, analysisGrids \in GridInputs,
          simulationType \in SimulationTypeInputs, reuseDaylightMtx \in BOOLEAN :
          NewDaylightCoeffGridBased(skyMtx, analysisGrids, simulationType,
                                    reuseDaylightMtx)
    \/ \E given \in SimulationTypeInputs : AssignSimulationType(given)
    \/ \E newSky \in GridBasedSkyInputs : AssignSky(newSky)
    \/ \E projectName \in ProjectNames, header \in BOOLEAN :
          Write(projectName, header)
    \/ Run
    \/ Results
    \/ \E outputName \in OconvInputs : ExecuteOconv(outputName)

RecipeSpec == RecipeInit /\ [][RecipeNext]_vars

(***************************************************************************)
(* Properties of ImageBasedParameters, checked under ParamSpec.            *)
(***************************************************************************)
\* the rows of both tables of tier defaults
TierRows == Range(rpict_number_parameters) \cup Range(rpict_boolean_parameters)
TierAttributes == {row.attr : row \in TierRows}

\* C7: right after ImageBasedParameters(t) every tier-controlled parameter has
\* the value of tier t, not None.
C7_FreshObjectHoldsTier ==
    (plast.op = "new" /\ plast.ok) =>
        /\ params.quality = OrZero(plast.given)
        /\ \A row \in TierRows :
              params.values[row.attr] = row.values[params.quality + 1]

\* C8: rp.quality = t, t in 0..2, gives every tier-controlled parameter the
\* value of tier t whatever it was before, and leaves the others as they were.
C8_QualityAssignsTier ==
    (plast.op = "quality" /\ plast.ok) =>
        LET t == OrZero(plast.given)
        IN  /\ t \in 0..2
            /\ params.quality = t
            /\ DOMAIN params.values = DOMAIN plast.before.values
            /\ \A row \in TierRows : params.values[row.attr] = row.values[t + 1]
            /\ \A a \in DOMAIN params.values \ TierAttributes :
                  params.values[a] = plast.before.values[a]

\* a tier assigned over an overridden tier parameter and a set other parameter
C8_Witness ==
    /\ plast.op = "quality"
    /\ plast.ok
    /\ plast.before.quality # params.quality
    /\ plast.before.values["ambientBounces"] = "5"
    /\ plast.before.values["pixelSampling"] = "1"

\* C9: rp.quality = v with v outside 0..2 fails and changes neither the stored
\* quality nor any parameter.
C9_BadQualityRejected ==
    (plast.op = "quality" /\ ~plast.given.none /\ plast.given.v \notin 0..2) =>
        /\ ~plast.ok
        /\ params = plast.before

\* a negative quality refused on an object with an override
C9_Witness ==
    /\ plast.op = "quality"
    /\ ~plast.given.none
    /\ plast.given.v < 0
    /\ ~plast.ok
    /\ params.values["ambientBounces"] = "5"

\* C10: after construction no assignment and no change of quality changes
\* the set of registered keys, and assigning to an attribute that is not
\* registered fails and leaves the object as it was.
C10_KeysFixedAfterInit ==
    /\ params.frozen
    /\ plast.op \in {"quality", "assign"} =>
          /\ params.keys = plast.before.keys
          /\ (plast.op = "assign" /\ plast.attr \notin plast.before.keys) =>
                ~plast.ok /\ params = plast.before

\* an assignment to an attribute the class does not have, refused
C10_Witness ==
    /\ plast.op = "assign"
    /\ plast.attr = "skyDensity"
    /\ ~plast.ok
    /\ params.quality = 2

(***************************************************************************)
(* Properties of the grid-based recipes, checked under RecipeSpec.         *)
(***************************************************************************)
\* C11: recipe.simulationType = v on a GridBased recipe, v an integer outside
\* 0..2, fails and leaves the stored simulation type as it was, as does a
\* construction with such a v; 0, 2 and, under a climate-based sky, 1 are
\* stored as given.
C11_SimulationTypeValidated ==
    (rlast.cls = "GridBased" /\ ~rlast.simulationType.none) =>
        LET v == rlast.simulationType.v
        IN  /\ (rlast.op = "new" /\ v \notin 0..2) => ~rlast.ok
            /\ (rlast.op = "simulationType" /\ v \notin 0..2) =>
                  /\ ~rlast.ok
                  /\ rlast.unchanged
                  /\ recipe.simType = rlast.simTypeBefore
            /\ (/\ rlast.op = "simulationType"
                /\ v \in 0..2
                /\ v = 1 => recipe.sky.isClimateBased) =>
                  /\ rlast.ok
                  /\ recipe.simType = Given(v)

\* a code above 2 refused on a recipe that holds luminance
C11_Witness ==
    /\ rlast.op = "simulationType"
    /\ ~rlast.simulationType.none
    /\ rlast.simulationType.v > 2
    /\ ~rlast.ok
    /\ recipe.simType = Given(2)

\* C12: recipe.simulationType = 1 on a GridBased recipe whose sky is not
\* climate-based fails and leaves the stored simulation type as it was.
C12_RadiationNeedsClimateSky ==
    (/\ rlast.op = "simulationType"
     /\ int(rlast.simulationType) = 1
     /\ ~rlast.simulationType.none
     /\ ~recipe.sky.isClimateBased) =>
        /\ ~rlast.ok
        /\ rlast.unchanged
        /\ recipe.simType = rlast.simTypeBefore

\* radiation refused under a sky of fixed illuminance, on a written recipe
C12_Witness ==
    /\ rlast.op = "simulationType"
    /\ rlast.simulationType = Given(1)
    /\ recipe.sky = SkyWithCertainIlluminanceLevel
    /\ ~rlast.ok
    /\ recipe.simType = Given(0)
    /\ recipe.commands # <<>>

\* C13: DaylightCoeffGridBased(skyMtx, grids, v) with v outside 0..2 fails;
\* no such recipe comes to exist.
C13_BadCodeRefusedAtConstruction ==
    (/\ rlast.op = "new"
     /\ rlast.cls = "DaylightCoeffGridBased"
     /\ ~rlast.simulationType.none
     /\ rlast.simulationType.v \notin 0..2) => ~rlast.ok

\* C14: an object that is no Honeybee sky is refused when it is assigned to
\* GridBased.sky or passed to GridBased(...), and write() of a constructed
\* DaylightCoeffGridBased never fails on the type of its sky.
C14_SkyRejectedEarly ==
    /\ (/\ rlast.cls = "GridBased"
        /\ rlast.op \in {"new", "sky"}
        /\ ~hasattr(rlast.sky, "isRadianceSky")) => ~rlast.ok
    /\ (rlast.op = "write" /\ rlast.cls = "DaylightCoeffGridBased") =>
          rlast.error # "TypeError"

\* C15: results() of a recipe of either class that has not been run fails
\* with the 'not run yet' error, reads no results file and leaves the
\* recipe and its grids as they were.
C15_NoResultsBeforeRun ==
    (rlast.op = "results" /\ ~recipe.isCalculated) =>
        /\ ~rlast.ok
        /\ rlast.error = "not run yet"
        /\ ~rlast.read
        /\ rlast.unchanged
        /\ \A i \in 1..Len(recipe.analysisGrids) : ~recipe.analysisGrids[i].loaded

\* results() refused on a daylight-coefficient recipe that was only written
C15_Witness ==
    /\ rlast.op = "results"
    /\ rlast.cls = "DaylightCoeffGridBased"
    /\ ~recipe.isCalculated
    /\ recipe.commands # <<>>
    /\ recipe.resultsFile # <<>>
    /\ ~rlast.ok

\* the rows grid i of a recipe is due: as many as it has points, from the
\* row after those of the grids before it
RowsDue(analysisGrids, i) ==
    [k \in 1..len(analysisGrids[i]) |-> SumPoints(analysisGrids, i - 1) + k - 1]

\* C16: GridBased.results() gives every grid, from the one results file, the
\* rows from the sum of the point counts of the grids before it on: for
\* grids of 3, 5 and 2 points the rows 0-2, 3-7 and 8-9.
C16_GridRowsContiguous ==
    (rlast.op = "results" /\ rlast.cls = "GridBased" /\ rlast.ok) =>
        \A i \in 1..Len(recipe.analysisGrids) :
            /\ recipe.analysisGrids[i].loaded
            /\ recipe.analysisGrids[i].rows = RowsDue(recipe.analysisGrids, i)

\* the grids of 3, 5 and 2 points read back, the third from row 8
C16_Witness ==
    /\ rlast.op = "results"
    /\ rlast.cls = "GridBased"
    /\ rlast.ok
    /\ Len(recipe.analysisGrids) = 3
    /\ recipe.analysisGrids[2].rows = <<3, 4, 5, 6, 7>>
    /\ recipe.analysisGrids[3].rows = <<8, 9>>

\* C17: DaylightCoeffGridBased.results() gives every grid of the recipe its
\* rows of the one results file, from the sum of the point counts of the
\* grids before it on; no grid is left without values.
C17_EveryGridPopulated ==
    (rlast.op = "results" /\ rlast.cls = "DaylightCoeffGridBased" /\ rlast.ok) =>
        \A i \in 1..Len(recipe.analysisGrids) :
            /\ recipe.analysisGrids[i].loaded
            /\ recipe.analysisGrids[i].rows = RowsDue(recipe.analysisGrids, i)

\* the stages of DaylightCoeffGridBased.write in the order of their
\* dependencies
StageOrder ==
    << ":: sky matrix", ":: daylight matrix", ":: final matrix calculations",
       ":: convert RGB values to illuminance" >>
StagePosition(stage) == CHOOSE p \in 1..Len(StageOrder) : StageOrder[p] = stage

\* C18: the commands of DaylightCoeffGridBased.write come after the points
\* file is written and in the order sky matrix, daylight matrix, final matrix
\* calculation, conversion, with or without the first two; every input of a
\* command is the output of a command before it or a file that is there.
C18_StagesInDependencyOrder ==
    (rlast.op = "write" /\ rlast.cls = "DaylightCoeffGridBased" /\ rlast.ok) =>
        LET stages == Stages(recipe.commands)
        IN  /\ rlast.events = <<"points">> \o stages
            /\ isfile(disk, join(rlast.path, <<rlast.projectName \o ".pts">>))
            /\ Range(stages) \subseteq Range(StageOrder)
            /\ \A i, j \in 1..Len(stages) :
                  i < j => StagePosition(stages[i]) < StagePosition(stages[j])
            /\ \A i \in 1..Len(recipe.commands) :
                  \A k \in 1..Len(recipe.commands[i].inputs) :
                     LET input == recipe.commands[i].inputs[k]
                     IN  \/ isfile(disk, join(rlast.path, input))
                         \/ \E j \in 1..(i - 1) :
                               /\ recipe.commands[j].kind = "command"
                               /\ recipe.commands[j].output = input

\* a write that leaves out the sky matrix and the daylight matrix, both on
\* disk from a run before
C18_Witness ==
    /\ rlast.op = "write"
    /\ rlast.cls = "DaylightCoeffGridBased"
    /\ rlast.ok
    /\ Stages(recipe.commands) = SubSeq(StageOrder, 3, 4)
    /\ recipe.isCalculated

\* the keys a daylight matrix may be named by
KeyNames == ProjectNames \cup {"room_1_2"}
KeyNumbers == 1..12

\* C19: DaylightCoeffGridBased.write leaves out the daylight-matrix command
\* exactly when reuseDaylightMtx is set and the file named by project name,
\* sky density and total point count is in the project folder; another
\* name, density or count names another file; the final matrix calculation
\* and the conversion are emitted every time.
C19_DaylightMtxReuse ==
    (rlast.op = "write" /\ rlast.cls = "DaylightCoeffGridBased" /\ rlast.ok) =>
        LET stages == Range(Stages(recipe.commands))
            dMatrix == DaylightMtxName(rlast.projectName, recipe.sky.skyDensity,
                                       numOfTotalPoints(recipe))
        IN  /\ (":: daylight matrix" \notin stages) <=>
                  (recipe.reuseDaylightMtx /\ isfile(disk, join(rlast.path, dMatrix)))
            /\ ":: final matrix calculations" \in stages
            /\ ":: convert RGB values to illuminance" \in stages
            /\ \A name \in KeyNames, density \in KeyNumbers, points \in KeyNumbers :
                  <<name, density, points>> #
                     <<rlast.projectName, recipe.sky.skyDensity,
                       numOfTotalPoints(recipe)>>
                  => DaylightMtxName(name, density, points) # dMatrix

\* the daylight matrix of this key reused while the folder also holds the
\* matrix of another key
C19_Witness ==
    /\ rlast.op = "write"
    /\ rlast.cls = "DaylightCoeffGridBased"
    /\ rlast.ok
    /\ recipe.reuseDaylightMtx
    /\ ":: daylight matrix" \notin Range(Stages(recipe.commands))
    /\ Cardinality(DaylightMatrices(disk)) = 2

\* C20: no path in a command that GridBased.write or
\* DaylightCoeffGridBased.write emits is absolute: inputs and outputs are
\* all relative to the project folder.
C20_CommandPathsRelative ==
    (rlast.op = "write") =>
        \A i \in 1..Len(recipe.commands) :
            /\ ~isabs(recipe.commands[i].output)
            /\ \A k \in 1..Len(recipe.commands[i].inputs) :
                  ~isabs(recipe.commands[i].inputs[k])

\* the commands of a GridBased recipe written without the header lines
C20_Witness ==
    /\ rlast.op = "write"
    /\ rlast.cls = "GridBased"
    /\ rlast.ok
    /\ Len(recipe.commands) = 3
    /\ recipe.commands[1].inputs[1] = <<"skies", "climate.sky">>

\* C21: in the commands written by write() of either recipe, every command
\* line comes right after a comment line that names its stage.
C21_EveryCommandCommented ==
    (rlast.op = "write" /\ rlast.ok) =>
        \A i \in 1..Len(recipe.commands) :
            recipe.commands[i].kind = "command" =>
                /\ i > 1
                /\ recipe.commands[i - 1].kind = "comment"

\* C27: a GridBased recipe whose simulation type is 1 (radiation) has a
\* climate-based sky, whatever was assigned to sky and simulationType
\* before.
C27_RadiationImpliesClimateSky ==
    (recipe.cls = "GridBased" /\ recipe.simType = Given(1)) =>
        recipe.sky.isClimateBased

\* an output name as one relative path, the extension .oct put where the
\* caller left it out and a leading "./" taken off
WrittenOut(outputName) ==
    LET n == Len(outputName.path)
        whole == [outputName.path EXCEPT ![n] = @ \o ".oct"]
    IN  IF Head(whole) = "." THEN Tail(whole) ELSE whole

\* C24: Oconv(outputName).execute() returns the output file of the command,
\* whose normalized path is the output name as a relative path without a
\* leading "./"; GridBased.write gives rtrace that same output file of its
\* Oconv(projectName) as the octree.
C24_OconvOutputFile ==
    /\ rlast.op = "oconv" =>
          /\ rlast.path = WrittenOut(rlast.outputName)
          /\ ~isabs(rlast.path)
          /\ Head(rlast.path) # "."
    /\ (rlast.op = "write" /\ rlast.cls = "GridBased") =>
          LET oconv == SelectSeq(recipe.commands, LAMBDA c : c.text = "oconv")
              rtrace == SelectSeq(recipe.commands, LAMBDA c : c.text = "rtrace")
          IN  /\ Len(oconv) = 1
              /\ Len(rtrace) = 1
              /\ oconv[1].output =
                    WrittenOut(OutputName(<<rlast.projectName>>, ""))
              /\ rtrace[1].inputs[1] = oconv[1].output

\* the output name of the test: './tests/room/testrun/room.oct'
C24_Witness ==
    /\ rlast.op = "oconv"
    /\ rlast.outputName =
          OutputName(<<".", "tests", "room", "testrun", "room">>, ".oct")
    /\ rlast.path = <<"tests", "room", "testrun", "room.oct">>

\* C23: for every quality tier t in 0..2, low quality included, and every
\* registered tier-controlled parameter, getParameterDefaultValueBasedOnQuality
\* returns the value of tier t for that parameter.
C23_DefaultOfEveryTier ==
    (/\ plast.op = "default"
     /\ plast.attr \in TierAttributes \cap params.keys
     /\ params.quality \in 0..2) =>
        /\ plast.ok
        /\ \A row \in TierRows :
              row.attr = plast.attr => plast.value = row.values[params.quality + 1]

(***************************************************************************)
(* Properties of the hours a SunMatrix holds, checked under YearSpec.      *)
(***************************************************************************)
\* C22: the hours a constructed SunMatrix holds all lie in 0..8759.
C22_HoursWithinYear ==
    \A i \in 1..Len(hoys) : hoys[i] \in 0..(HoursInYear - 1)

\* C28: a SunMatrix holds the hour sequence its caller supplied, unchanged,
\* and writes the manifest and the NCOLS line of the matrix from it; it
\* holds the full year only when no sequence was supplied, so an empty
\* sequence gives NCOLS=0 and no retained sun.
C28_HoursKeptAsSupplied ==
    /\ asked.given => hoys = asked.hoys
    /\ hoys = range(HoursInYear) => ~asked.given
    /\ (asked.given /\ ExecuteWrote) =>
          /\ hrsFile.text = HoursLine(asked.hoys)
          /\ mtxFile.header[5] = "NCOLS=" \o ToString(Len(asked.hoys))
          /\ (asked.hoys = <<>> => annFile.lines = <<>>)

(***************************************************************************)
(* Properties of the parser of gendaylit's output, checked under           *)
(* ParserSpec.                                                             *)
(***************************************************************************)
BeginsWithMarker(line) == line # <<>> /\ line[1] = "#"

\* the tokens of the lines that do not begin with '#', in order
RECURSIVE TokensOf(_)
TokensOf(lines) ==
    IF lines = <<>> THEN <<>>
    ELSE (IF BeginsWithMarker(Head(lines)) THEN <<>> ELSE Split(Head(lines)))
         \o TokensOf(Tail(lines))

\* C25: whatever lines gendaylit returns, the parser ends without an error
\* and yields the whitespace-delimited tokens of the lines that do not begin
\* with '#', in order; empty lines and lines of blanks add no token.
C25_ParserTakesAnyLines ==
    gdOutput.cleaned =>
        /\ gdOutput.ok
        /\ gdOutput.sunCurrentValue = TokensOf(DropTail(gdOutput.data))

(***************************************************************************)
(* Properties of two callers of execute on one folder, checked under       *)
(* RaceSpec.                                                               *)
(***************************************************************************)
AllIdle == \A c \in Callers : runs[c].at = "idle"

\* no call is in progress and the manifest is that of one hour sequence
\* while the matrix is that of another
Mismatched ==
    /\ AllIdle
    /\ hrsFile.exists
    /\ mtxFile.exists
    /\ hrsFile.madeFor # mtxFile.madeFor

\* C26: when no two calls of execute on the folder ever overlapped and none
\* aborted, the folder never ends with the manifest of one hour sequence and
\* the matrix of another, and a call that reuses the files is given the
\* matrix of its own hours; interleaved calls can leave that state, and a
\* later call that reuses is then given the other sequence's matrix.
C26_MismatchNeedsOverlapOrAbort ==
    (~folderLog.overlapped /\ ~folderLog.aborted) =>
        /\ ~Mismatched
        /\ \A c \in Callers :
              runs[c].outcome = "cached" => runs[c].matrixFor = runs[c].hoys

\* two calls overlapped, both completed, and a later call that reuses was
\* given the matrix of the other hour sequence
C26_Witness ==
    /\ Mismatched
    /\ folderLog.overlapped
    /\ ~folderLog.aborted
    /\ \E c \in Callers :
          /\ runs[c].outcome = "cached"
          /\ runs[c].hoys = hrsFile.madeFor
          /\ runs[c].matrixFor # runs[c].hoys
          /\ \E d \in Callers \ {c} : runs[d].outcome = "generated"
====
